---- MODULE Spec2Model ----
(***************************************************************************)
(* Model of src-tauri/src/lib.rs of yue-editor: the main-window visibility *)
(* handlers (commands, tray menu, tray icon click) and the file commands   *)
(* (markdown export, database backup, database restore).                   *)
(*                                                                         *)
(* Four specifications share the definitions below:                        *)
(*   SpecWindow  the window handlers, run one at a time on the event loop; *)
(*   Spec        backup and restore, one invocation at a time;             *)
(*   SpecExport  the markdown exports, one invocation at a time;           *)
(*   SpecRace    two restore_database invocations running concurrently.    *)
(* The window and the file commands share no state in the source, so each  *)
(* specification leaves the other part's variables alone.                  *)
(***************************************************************************)
EXTENDS Integers, Sequences, FiniteSets, TLC

VARIABLES
    win,        \* the "main" webview window as the handlers drive it
    running,    \* FALSE once app.exit(0) was called
    wtrace,     \* history: the last two window handlers that ran
    files,      \* the file system: existing path |-> content
    clock,      \* chrono::Utc::now(), in ticks finer than a second
    dataDirOk,  \* whether app.path().app_data_dir() resolves on this host
    pc,         \* per invocation slot: position inside the async command
    cmd,        \* per slot: the command being run
    arg,        \* per slot: its file_path argument
    notes_json, \* per slot: its notes_json argument (a token sequence)
    ret,        \* per slot: the Result the command returned
    pre,        \* history, per slot: the file system when the command was invoked
    did,        \* history, per slot: the fs::copy calls the invocation began
    stamp,      \* per slot: the backup_path computed at lines 104-107
    calls,      \* number of commands invoked so far
    landed,     \* history: the slot whose copy over notes.db completed last (0: none)
    overlapped  \* history: two copies over notes.db were in progress at once

winVars == <<win, running, wtrace>>
fileVars == <<files, clock, dataDirOk, pc, cmd, arg, notes_json, ret, pre, did, stamp, calls,
              landed, overlapped>>
vars == <<win, running, wtrace, files, clock, dataDirOk, pc, cmd, arg, notes_json, ret, pre,
          did, stamp, calls, landed, overlapped>>

(***************************************************************************)
(* Bounds of the model.                                                    *)
(***************************************************************************)
\* longest file content (in chunks) present before any command runs
MaxLen == 2
\* the clock stops advancing after this many ticks
MaxClock == 2
\* clock ticks per second: the clock is finer than the "%S" of the formats
TicksPerSec == 2
\* commands invoked in one run of Spec
MaxCalls == 2

(***************************************************************************)
(* The main window (lines 7-21, 143-175).                                  *)
(***************************************************************************)
\* The window state is the state the handlers have requested through the
\* window handle; the Result of show/hide/set_focus/unminimize is discarded
\* by the source (let _ = ...), the Result of is_visible is not.
WinStates ==
    { w \in [present : BOOLEAN, visible : BOOLEAN, focused : BOOLEAN,
             minimized : BOOLEAN] :
        /\ w.focused => (w.visible /\ ~w.minimized)
        /\ ~w.present => (~w.visible /\ ~w.focused /\ ~w.minimized) }

\* window.show()
show(w) == [w EXCEPT !.visible = TRUE]

\* window.hide(): a hidden window does not keep the input focus
hide(w) == [w EXCEPT !.visible = FALSE, !.focused = FALSE]

\* window.set_focus(): only a shown window can take the focus
set_focus(w) == [w EXCEPT !.focused = w.visible]

\* window.unminimize()
unminimize(w) == [w EXCEPT !.minimized = FALSE]

\* one call on the window handle
WinCall(w, c) ==
    CASE c = "show" -> show(w)
      [] c = "set_focus" -> set_focus(w)
      [] c = "unminimize" -> unminimize(w)
      [] c = "hide" -> hide(w)

\* the calls of a handler, applied in order
RECURSIVE WinRun(_, _)
WinRun(w, cs) ==
    IF cs = <<>> THEN w ELSE WinRun(WinCall(w, Head(cs)), Tail(cs))

\* variant: the focus is requested before the window is shown
ShowCalls_noFocusOrder == <<"set_focus", "show", "unminimize">>
\* lines 10-12 (and 147-149, 169-171): show, set_focus, unminimize
ShowCalls == <<"show", "set_focus", "unminimize">>

\* line 19 (and 154, 167): hide
HideCalls == <<"hide">>

\* app.is_visible().unwrap_or(false), line 166: qok is whether the query succeeded
IsVisibleOrFalse(w, qok) == IF qok THEN w.visible ELSE FALSE

\* variant: unwrap_or(true), a failed query counts as visible
ToggleCalls_hideOnQueryFailure(w, qok) ==
    IF (IF qok THEN w.visible ELSE TRUE) THEN HideCalls ELSE ShowCalls
\* variant: the click always takes the show branch
ToggleCalls_alwaysShow(w, qok) == ShowCalls
\* lines 166-172: the calls the tray click makes on a present window
ToggleCalls(w, qok) ==
    IF IsVisibleOrFalse(w, qok) THEN HideCalls ELSE ShowCalls

\* if let Some(window) = app.get_webview_window("main"): no window, no call
OnWindow(w, cs) == IF w.present THEN cs ELSE <<>>

\* the history keeps the last two handlers
Last2(s) == IF Len(s) > 2 THEN SubSeq(s, Len(s) - 1, Len(s)) ELSE s

\* a handler ran: op made the calls cs on the window
Handled(op, qok, cs) ==
    /\ running
    /\ win' = WinRun(win, cs)
    /\ wtrace' = Last2(Append(wtrace,
                    [op |-> op, before |-> win, qok |-> qok, calls |-> cs,
                     after |-> WinRun(win, cs)]))

\* lines 7-14
show_main_window ==
    /\ Handled("show_main_window", TRUE, OnWindow(win, ShowCalls))
    /\ UNCHANGED <<running, fileVars>>

\* lines 16-21
hide_main_window ==
    /\ Handled("hide_main_window", TRUE, OnWindow(win, HideCalls))
    /\ UNCHANGED <<running, fileVars>>

MenuIds == {"show", "hide", "quit", "other"}

\* lines 143-162: the tray menu
on_menu_event(id) ==
    /\ Handled("menu_" \o id, TRUE,
               CASE id = "show" -> OnWindow(win, ShowCalls)
                 [] id = "hide" -> OnWindow(win, HideCalls)
                 [] OTHER -> <<>>)
    /\ running' = (id # "quit")
    /\ UNCHANGED fileVars

TrayEvents == {"Click", "Enter"}

\* lines 163-175: the tray icon; qok is the outcome of the visibility query,
\* which is made only for a click with the window present
on_tray_icon_event(ev, qok) ==
    /\ (ev = "Click" /\ win.present) \/ qok
    /\ Handled("tray_" \o ev, qok,
               IF ev = "Click" THEN OnWindow(win, ToggleCalls(win, qok)) ELSE <<>>)
    /\ UNCHANGED <<running, fileVars>>

(***************************************************************************)
(* The file system and the clock.                                          *)
(***************************************************************************)
\* app_data_dir.join("notes.db"), lines 77 and 100
DbPath == "notes.db"

\* the file_path arguments the UI passes: locations outside the data directory
UserPaths == {"u1.db", "u2.db"}

\* invocation slots: commands the host runtime may run at the same time
Procs == {1, 2}

\* file contents are sequences of chunks; before any command runs each file
\* holds chunks of its own, so that a chunk tells which file it came from
Chunk(path) ==
    CASE path = DbPath -> "d"
      [] path = "u1.db" -> "a"
      [] path = "u2.db" -> "b"
Content(path, n) == [i \in 1..n |-> Chunk(path)]

Digits == <<"0", "1", "2", "3", "4", "5", "6", "7", "8", "9">>
TwoDigits(n) == Digits[((n \div 10) % 10) + 1] \o Digits[(n % 10) + 1]

\* the second the instant `now` falls in: both formats stop at %S
Seconds(now) == now \div TicksPerSec

\* format!("notes_backup_{}.db", now.format("%Y%m%d_%H%M%S")), lines 104-107;
\* the run starts at 1970-01-01 00:00:00 UTC
BackupPath(now) ==
    "notes_backup_19700101_0000" \o TwoDigits(Seconds(now)) \o ".db"

\* now.format("%Y-%m-%d %H:%M:%S UTC"), lines 31 and 50
ExportStamp(now) == "1970-01-01 00:00:" \o TwoDigits(Seconds(now)) \o " UTC"

IsSnapshot(path) == path \notin UserPaths \cup {DbPath}

\* the file system with `path` holding `content`
Put(fs, path, content) ==
    [q \in DOMAIN fs \cup {path} |-> IF q = path THEN content ELSE fs[q]]

\* writing `bytes` from offset 0 into a file holding `old`: what lies beyond
\* the written bytes stays
Overlay(bytes, old) == bytes \o SubSeq(old, Len(bytes) + 1, Len(old))

\* variant: the destination is opened without truncate
CopyOpen_noTruncate(fs, to) == IF to \in DOMAIN fs THEN fs ELSE Put(fs, to, <<>>)
\* std::fs::copy opens the destination with create + truncate ...
CopyOpen(fs, to) == Put(fs, to, <<>>)

\* ... and then transfers the source's bytes into it from offset 0; k is the
\* number of chunks transferred (all of them unless the transfer fails)
CopyWrite(fs, from, to, k) ==
    Put(fs, to, Overlay(SubSeq(fs[from], 1, k), fs[to]))

(***************************************************************************)
(* export_all_notes_to_markdown: parsing and rendering (lines 45-62).      *)
(***************************************************************************)
\* notes_json is a sequence of lexical tokens: brackets, commas, and
\*   "{A}"  the object {"title":"A","content":"x","created_at":"t1"}
\*   "{n}"  the object {"title":7,"content":"y"}
\*   "{}"   the empty object
\*   "s"    a JSON string, e.g. "not json" written with its quotes
\*   "w"    a bare word that is no JSON token, e.g. not
ValueToks == {"{A}", "{n}", "{}", "s"}

\* the inputs drawn for notes_json
JsonInputs ==
    { <<"w", "w">>,                       \* not json
      <<>>,                               \* the empty string
      <<"s">>,                            \* "not json"
      <<"{A}">>,                          \* one note, not in a sequence
      <<"[", "{A}">>,                     \* unterminated
      <<"[", "{A}", ",", "]">>,           \* trailing comma
      <<"[", "]", "w">>,                  \* trailing characters
      <<"[", "]">>,
      <<"[", "{A}", "]">>,
      <<"[", "{n}", ",", "{}", "]">>,
      <<"[", "s", "]">> }

\* value (, value)* : values at the odd positions, commas at the even ones
Elements(inner) ==
    /\ Len(inner) % 2 = 1
    /\ \A i \in 1..Len(inner) :
          IF i % 2 = 1 THEN inner[i] \in ValueToks ELSE inner[i] = ","

\* the values of the elements, in order
RECURSIVE ElementValues(_)
ElementValues(inner) ==
    IF inner = <<>> THEN <<>>
    ELSE IF Head(inner) = "," THEN ElementValues(Tail(inner))
    ELSE <<Head(inner)>> \o ElementValues(Tail(inner))

\* variant: a parser that keeps whatever values it finds and never fails
ParseNotes_lenient(toks) ==
    [ok |-> TRUE, notes |-> SelectSeq(toks, LAMBDA t : t \in ValueToks)]
\* serde_json::from_str::<Vec<Value>>(&notes_json), line 45: Ok only for one JSON
\* array and nothing after it
ParseNotes(toks) ==
    IF /\ Len(toks) >= 2
       /\ toks[1] = "["
       /\ toks[Len(toks)] = "]"
       /\ \/ Len(toks) = 2
          \/ Elements(SubSeq(toks, 2, Len(toks) - 1))
    THEN [ok |-> TRUE, notes |-> ElementValues(SubSeq(toks, 2, Len(toks) - 1))]
    ELSE [ok |-> FALSE, notes |-> <<>>]

\* note[field].as_str(): <<s>> for Some(s), <<>> for None (a missing field, a
\* field that is no string, or a value that is no object)
AsStr(note, field) ==
    CASE note = "{A}" -> (CASE field = "title" -> <<"A">>
                            [] field = "content" -> <<"x">>
                            [] field = "created_at" -> <<"t1">>)
      [] note = "{n}" -> (IF field = "content" THEN <<"y">> ELSE <<>>)
      [] OTHER -> <<>>

\* Option::unwrap_or
UnwrapOr(opt, default) == IF opt = <<>> THEN default ELSE opt[1]

\* lines 54-61: the section of one note ("untitled" stands for the source's
\* non-ASCII fallback title, "created: " for its non-ASCII label)
NoteSection(note) ==
    << "## " \o UnwrapOr(AsStr(note, "title"), "untitled"),
       "*created: " \o UnwrapOr(AsStr(note, "created_at"), "") \o "*",
       UnwrapOr(AsStr(note, "content"), ""),
       "---" >>

RECURSIVE NoteSections(_)
NoteSections(notes) ==
    IF notes = <<>> THEN <<>>
    ELSE NoteSection(Head(notes)) \o NoteSections(Tail(notes))

\* lines 48-62: the document of export_all_notes_to_markdown
AllNotesDoc(notes, now) ==
    << "# notes export", "export time: " \o ExportStamp(now), "---" >>
        \o NoteSections(notes)

\* lines 27-32: the document of export_note_to_markdown
NoteDoc(title, content, now) ==
    << "# " \o title, content, "---", "*export time: " \o ExportStamp(now) \o "*" >>

(***************************************************************************)
(* The file commands (lines 23-117).  Each is an async fn without an await *)
(* point; the host runtime runs invocations on separate threads, so two of *)
(* them interleave between their file-system calls.                        *)
(***************************************************************************)
Goto(p, pos, result) ==
    /\ pc' = [pc EXCEPT ![p] = pos]
    /\ ret' = [ret EXCEPT ![p] = result]

\* the UI invokes command c in slot p
Invoke(p, c, path, js) ==
    /\ pc[p] = "idle"
    /\ calls < MaxCalls
    /\ calls' = calls + 1
    /\ cmd' = [cmd EXCEPT ![p] = c]
    /\ arg' = [arg EXCEPT ![p] = path]
    /\ notes_json' = [notes_json EXCEPT ![p] = js]
    /\ pre' = [pre EXCEPT ![p] = files]
    /\ did' = [did EXCEPT ![p] = {}]
    /\ stamp' = [stamp EXCEPT ![p] = ""]

\* variant: the error of a failed fs::copy is dropped (let _ = ...)
AfterCopyError_ignored == "next"
\* the `?` on a failed fs::copy: the command returns the error
AfterCopyError == "done"

\* where a failed copy leaves the invocation: at `next` only if the error is dropped
OnCopyError(next) == IF AfterCopyError = "done" THEN "done" ELSE next

\* fs::copy(from, to), first half: open both files; ok is whether the opens
\* succeed (the source must exist); `after` is the statement following the copy
CopyOpenStep(p, label, from, to, ok, next, after) ==
    IF ok /\ from \in DOMAIN files
    THEN /\ files' = CopyOpen(files, to)
         /\ did' = [did EXCEPT ![p] = @ \cup {label}]
         /\ Goto(p, next, ret[p])
    ELSE /\ files' = files
         /\ did' = [did EXCEPT ![p] = @ \cup {label, label \o "_failed"}]
         /\ Goto(p, OnCopyError(after),
                 IF OnCopyError(after) = "done" THEN "CopyError" ELSE ret[p])

\* fs::copy(from, to), second half: transfer the chunks, k of them if the
\* transfer fails (not ok)
CopyWriteStep(p, label, from, to, ok, next, result) ==
    /\ \E k \in 0..Len(files[from]) :
          /\ ok => k = Len(files[from])
          /\ files' = CopyWrite(files, from, to, k)
    /\ IF ok
       THEN /\ Goto(p, next, result)
            /\ UNCHANGED did
       ELSE /\ Goto(p, OnCopyError(next),
                    IF OnCopyError(next) = "done" THEN "CopyError" ELSE result)
            /\ did' = [did EXCEPT ![p] = @ \cup {label \o "_failed"}]

\* variant: the existence check is missing
EntryCheck_skipped(fs, path) == TRUE
\* std::path::Path::new(&file_path).exists(), line 93
EntryCheck(fs, path) == path \in DOMAIN fs

\* variant: the test is negated
DbExists_inverted(fs) == DbPath \notin DOMAIN fs
\* db_path.exists(), lines 79 and 103
DbExists(fs) == DbPath \in DOMAIN fs

\* lines 90-95
restore_database(p, path) ==
    /\ Invoke(p, "restore_database", path, <<>>)
    /\ IF EntryCheck(files, path)
       THEN Goto(p, "r_resolve", "pending")
       ELSE Goto(p, "done", "NotFound")
    /\ UNCHANGED <<files, clock, dataDirOk, landed, overlapped, winVars>>

\* lines 97-107
restore_resolve(p) ==
    /\ pc[p] = "r_resolve"
    /\ IF ~dataDirOk
       THEN Goto(p, "done", "DataDirError") /\ UNCHANGED stamp
       ELSE IF DbExists(files)
       THEN /\ stamp' = [stamp EXCEPT ![p] = BackupPath(clock)]
            /\ Goto(p, "r_safety_open", "pending")
       ELSE Goto(p, "r_copy_open", "pending") /\ UNCHANGED stamp
    /\ UNCHANGED <<files, clock, dataDirOk, cmd, arg, notes_json, pre, did, calls,
                   landed, overlapped, winVars>>

\* lines 108-109: fs::copy(&db_path, &backup_path) opens its files
restore_safety_open(p, ok) ==
    /\ pc[p] = "r_safety_open"
    /\ CopyOpenStep(p, "safety", DbPath, stamp[p], ok, "r_safety_write", "r_copy_open")
    /\ UNCHANGED <<clock, dataDirOk, cmd, arg, notes_json, pre, stamp, calls,
                   landed, overlapped, winVars>>

\* lines 108-109: fs::copy(&db_path, &backup_path) transfers the bytes
restore_safety_write(p, ok) ==
    /\ pc[p] = "r_safety_write"
    /\ CopyWriteStep(p, "safety", DbPath, stamp[p], ok, "r_copy_open", "pending")
    /\ UNCHANGED <<clock, dataDirOk, cmd, arg, notes_json, pre, stamp, calls,
                   landed, overlapped, winVars>>

\* lines 113-114: fs::copy(&file_path, &db_path) opens its files
restore_copy_open(p, ok) ==
    /\ pc[p] = "r_copy_open"
    /\ CopyOpenStep(p, "restore", arg[p], DbPath, ok, "r_copy_write", "done")
    /\ overlapped' = (overlapped \/ (/\ ok
                                     /\ arg[p] \in DOMAIN files
                                     /\ \E q \in Procs \ {p} : pc[q] = "r_copy_write"))
    /\ UNCHANGED <<clock, dataDirOk, cmd, arg, notes_json, pre, stamp, calls,
                   landed, winVars>>

\* lines 113-116: fs::copy(&file_path, &db_path) transfers the bytes; Ok(())
restore_copy_write(p, ok) ==
    /\ pc[p] = "r_copy_write"
    /\ CopyWriteStep(p, "restore", arg[p], DbPath, ok, "done", "Ok")
    /\ landed' = IF ok THEN p ELSE landed
    /\ UNCHANGED <<clock, dataDirOk, cmd, arg, notes_json, pre, stamp, calls,
                   overlapped, winVars>>

\* lines 71-81
backup_database(p, path) ==
    /\ Invoke(p, "backup_database", path, <<>>)
    /\ IF ~dataDirOk THEN Goto(p, "done", "DataDirError")
       ELSE IF ~DbExists(files) THEN Goto(p, "done", "NotFound")
       ELSE Goto(p, "b_copy_open", "pending")
    /\ UNCHANGED <<files, clock, dataDirOk, landed, overlapped, winVars>>

\* lines 83-84: fs::copy(&db_path, &file_path) opens its files
backup_copy_open(p, ok) ==
    /\ pc[p] = "b_copy_open"
    /\ CopyOpenStep(p, "backup", DbPath, arg[p], ok, "b_copy_write", "done")
    /\ UNCHANGED <<clock, dataDirOk, cmd, arg, notes_json, pre, stamp, calls,
                   landed, overlapped, winVars>>

\* lines 83-86: fs::copy(&db_path, &file_path) transfers the bytes; Ok(())
backup_copy_write(p, ok) ==
    /\ pc[p] = "b_copy_write"
    /\ CopyWriteStep(p, "backup", DbPath, arg[p], ok, "done", "Ok")
    /\ UNCHANGED <<clock, dataDirOk, cmd, arg, notes_json, pre, stamp, calls,
                   landed, overlapped, winVars>>

WriteOutcomes == {"ok", "open_failed", "write_failed"}

\* fs::write(&file_path, doc): create or truncate, then write all of doc; a
\* failed write leaves the first k < Len(doc) lines.  The file systems that
\* can result.
WriteFile(fs, path, doc, outcome) ==
    CASE outcome = "ok" -> {Put(fs, path, doc)}
      [] outcome = "open_failed" -> {fs}
      [] outcome = "write_failed" ->
            { Put(fs, path, SubSeq(doc, 1, k)) : k \in 0..(Len(doc) - 1) }

\* lines 23-38
export_note_to_markdown(p, title, content, path, outcome) ==
    /\ Invoke(p, "export_note_to_markdown", path, <<>>)
    /\ files' \in WriteFile(files, path, NoteDoc(title, content, clock), outcome)
    /\ Goto(p, "done", IF outcome = "ok" THEN "Ok" ELSE "ExportError")
    /\ UNCHANGED <<clock, dataDirOk, landed, overlapped, winVars>>

\* lines 40-68
export_all_notes_to_markdown(p, js, path, outcome) ==
    /\ Invoke(p, "export_all_notes_to_markdown", path, js)
    /\ IF ~ParseNotes(js).ok
       THEN /\ files' = files
            /\ Goto(p, "done", "ParseError")
       ELSE /\ files' \in WriteFile(files, path,
                                    AllNotesDoc(ParseNotes(js).notes, clock), outcome)
            /\ Goto(p, "done", IF outcome = "ok" THEN "Ok" ELSE "ExportError")
    /\ UNCHANGED <<clock, dataDirOk, landed, overlapped, winVars>>

\* lines 224-231: the command's result is delivered and the slot is free again
Return(p) ==
    /\ pc[p] = "done"
    /\ Goto(p, "idle", "none")
    /\ cmd' = [cmd EXCEPT ![p] = "none"]
    /\ arg' = [arg EXCEPT ![p] = ""]
    /\ notes_json' = [notes_json EXCEPT ![p] = <<>>]
    /\ pre' = [pre EXCEPT ![p] = <<>>]
    /\ did' = [did EXCEPT ![p] = {}]
    /\ stamp' = [stamp EXCEPT ![p] = ""]
    /\ UNCHANGED <<files, clock, dataDirOk, calls, landed, overlapped, winVars>>

\* chrono::Utc::now() (lines 31, 50, 106) reads a clock that advances
Tick ==
    /\ clock < MaxClock
    /\ clock' = clock + 1
    /\ UNCHANGED <<files, dataDirOk, pc, cmd, arg, notes_json, ret, pre, did, stamp,
                   calls, landed, overlapped, winVars>>

(***************************************************************************)
(* Initial states and specifications.                                      *)
(***************************************************************************)
\* no command is running
SlotsIdle ==
    /\ pc = [p \in Procs |-> "idle"]
    /\ cmd = [p \in Procs |-> "none"]
    /\ arg = [p \in Procs |-> ""]
    /\ notes_json = [p \in Procs |-> <<>>]
    /\ ret = [p \in Procs |-> "none"]
    /\ pre = [p \in Procs |-> <<>>]
    /\ did = [p \in Procs |-> {}]
    /\ stamp = [p \in Procs |-> ""]
    /\ calls = 0
    /\ landed = 0
    /\ overlapped = FALSE
    /\ clock = 0

\* the files among `paths` that exist, each of any length up to MaxLen
SomeFiles(paths) ==
    \E S \in SUBSET paths : \E len \in [S -> 0..MaxLen] :
        files = [q \in S |-> Content(q, len[q])]

\* any database and any user files, no safety snapshot yet
FilesInit ==
    /\ SomeFiles({DbPath} \cup UserPaths)
    /\ dataDirOk \in BOOLEAN
    /\ SlotsIdle

\* the window part at rest
WindowAtRest ==
    /\ win = [present |-> TRUE, visible |-> TRUE, focused |-> TRUE, minimized |-> FALSE]
    /\ running = TRUE
    /\ wtrace = <<>>

\* restore and backup, one invocation at a time
Init == WindowAtRest /\ FilesInit

Next ==
    \/ \E path \in UserPaths : restore_database(1, path)
    \/ restore_resolve(1)
    \/ \E ok \in BOOLEAN : restore_safety_open(1, ok)
    \/ \E ok \in BOOLEAN : restore_safety_write(1, ok)
    \/ \E ok \in BOOLEAN : restore_copy_open(1, ok)
    \/ \E ok \in BOOLEAN : restore_copy_write(1, ok)
    \/ \E path \in UserPaths : backup_database(1, path)
    \/ \E ok \in BOOLEAN : backup_copy_open(1, ok)
    \/ \E ok \in BOOLEAN : backup_copy_write(1, ok)
    \/ Return(1)
    \/ Tick

Spec == Init /\ [][Next]_vars

\* the export commands, one at a time
NextExport ==
    \/ \E path \in UserPaths, outcome \in WriteOutcomes :
          export_note_to_markdown(1, "T", "C", path, outcome)
    \/ \E js \in JsonInputs, path \in UserPaths, outcome \in WriteOutcomes :
          export_all_notes_to_markdown(1, js, path, outcome)
    \/ Return(1)
    \/ Tick

\* the exports touch the file at file_path only
InitExport ==
    /\ WindowAtRest
    /\ SomeFiles(UserPaths)
    /\ dataDirOk = TRUE
    /\ SlotsIdle

SpecExport == InitExport /\ [][NextExport]_vars

\* two restore_database invocations at the same time
NextRace ==
    \/ \E p \in Procs, path \in UserPaths : restore_database(p, path)
    \/ \E p \in Procs : restore_resolve(p)
    \/ \E p \in Procs, ok \in BOOLEAN : restore_safety_open(p, ok)
    \/ \E p \in Procs, ok \in BOOLEAN : restore_safety_write(p, ok)
    \/ \E p \in Procs, ok \in BOOLEAN : restore_copy_open(p, ok)
    \/ \E p \in Procs, ok \in BOOLEAN : restore_copy_write(p, ok)
    \/ Tick

SpecRace == Init /\ [][NextRace]_vars

\* the window handlers, from any state of the window
InitWindow ==
    /\ win \in WinStates
    /\ running = TRUE
    /\ wtrace = <<>>
    /\ files = [q \in {DbPath} |-> <<>>]
    /\ dataDirOk = TRUE
    /\ SlotsIdle

NextWindow ==
    \/ show_main_window
    \/ hide_main_window
    \/ \E id \in MenuIds : on_menu_event(id)
    \/ \E ev \in TrayEvents, qok \in BOOLEAN : on_tray_icon_event(ev, qok)

SpecWindow == InitWindow /\ [][NextWindow]_vars

(***************************************************************************)
(* Claims about the window handlers, checked under SpecWindow.             *)
(***************************************************************************)
\* the handler that ran last
LastHandler == wtrace[Len(wtrace)]

\* C6: with the main window present, in whatever state earlier handlers left
\* it, show_main_window leaves it visible, focused and not minimized, and
\* hide_main_window leaves it hidden.
C6_ShowThenHideOutcome ==
    (wtrace # <<>> /\ LastHandler.before.present) =>
        /\ LastHandler.op = "show_main_window" =>
              (win.visible /\ win.focused /\ ~win.minimized)
        /\ LastHandler.op = "hide_main_window" => ~win.visible

\* C6 witness: show_main_window ran on a hidden, minimized window that an
\* earlier handler had left behind.
C6_Witness ==
    /\ Len(wtrace) = 2
    /\ LastHandler.op = "show_main_window"
    /\ LastHandler.before.present
    /\ ~LastHandler.before.visible
    /\ LastHandler.before.minimized

\* two tray clicks in a row, the first on a present, hidden window
TwoClicksFromHidden ==
    /\ Len(wtrace) = 2
    /\ wtrace[1].op = "tray_Click"
    /\ wtrace[2].op = "tray_Click"
    /\ wtrace[1].before.present
    /\ ~wtrace[1].before.visible

\* C7 as stated: two tray clicks in succession from a Hidden window end with
\* the window visible and focused.
C7_TwoClicksEndVisible ==
    TwoClicksFromHidden => (win.visible /\ win.focused)

\* C7 amended: from a Hidden window the first tray click leaves the window
\* visible and focused and the second hides it again; the window ends visible
\* and focused only when the second click's visibility query fails.
C7_TwoClicksToggleBack ==
    TwoClicksFromHidden =>
        /\ wtrace[1].after.visible /\ wtrace[1].after.focused
        /\ wtrace[2].qok => ~win.visible
        /\ ~wtrace[2].qok => (win.visible /\ win.focused)

\* C7 witness: two clicks from Hidden, the second with a successful query.
C7_Witness == TwoClicksFromHidden /\ wtrace[2].qok

\* C8: a tray click on a present window calls hide exactly when the query
\* succeeds and reports visible; otherwise it calls show, set_focus, unminimize
\* in that order and the window ends visible; without a window it calls nothing.
C8_ClickDispatch ==
    (wtrace # <<>> /\ LastHandler.op = "tray_Click") =>
        IF LastHandler.before.present
        THEN /\ (LastHandler.calls = <<"hide">>)
                    <=> (LastHandler.qok /\ LastHandler.before.visible)
             /\ ~(LastHandler.qok /\ LastHandler.before.visible) =>
                    /\ LastHandler.calls = <<"show", "set_focus", "unminimize">>
                    /\ win.visible
        ELSE LastHandler.calls = <<>> /\ win = LastHandler.before

\* C8 witness: a click whose visibility query failed on a hidden window.
C8_Witness ==
    /\ wtrace # <<>>
    /\ LastHandler.op = "tray_Click"
    /\ LastHandler.before.present
    /\ ~LastHandler.before.visible
    /\ ~LastHandler.qok

(***************************************************************************)
(* Claims about backup and restore, checked under Spec.                    *)
(***************************************************************************)
\* invocation p of command c has returned
Returned(p, c) == pc[p] = "done" /\ cmd[p] = c

\* C1: with the source backup and notes.db present, a failed safety copy makes
\* restore_database return an error without starting the copy over notes.db,
\* and notes.db holds the bytes it held before the call.
C1_SafetyFailureAborts ==
    \A p \in Procs :
        (/\ Returned(p, "restore_database")
         /\ arg[p] \in DOMAIN pre[p]
         /\ DbPath \in DOMAIN pre[p]
         /\ "safety_failed" \in did[p]) =>
            /\ ret[p] = "CopyError"
            /\ "restore" \notin did[p]
            /\ DbPath \in DOMAIN files
            /\ files[DbPath] = pre[p][DbPath]

\* C1 witness: a restore whose safety copy failed, with a source that differs
\* from the database.
C1_Witness ==
    \E p \in Procs :
        /\ Returned(p, "restore_database")
        /\ arg[p] \in DOMAIN pre[p]
        /\ DbPath \in DOMAIN pre[p]
        /\ "safety_failed" \in did[p]
        /\ pre[p][arg[p]] # pre[p][DbPath]

\* the safety snapshots that exist now and did not when p was invoked
NewSnapshots(p) == { s \in DOMAIN files \ DOMAIN pre[p] : IsSnapshot(s) }

\* C2 as stated: after a restore_database in which no copy failed, made with
\* notes.db and the source present, exactly one safety snapshot exists that did
\* not exist before, it holds the bytes notes.db had, and notes.db holds the
\* bytes of the source.
C2_OneNewSnapshot ==
    \A p \in Procs :
        (/\ Returned(p, "restore_database")
         /\ ret[p] = "Ok"
         /\ DbPath \in DOMAIN pre[p]) =>
            /\ Cardinality(NewSnapshots(p)) = 1
            /\ \A s \in NewSnapshots(p) : files[s] = pre[p][DbPath]
            /\ files[DbPath] = pre[p][arg[p]]

\* C3 as stated: the file name a restore picks for its safety snapshot never
\* names a snapshot an earlier restore of the run has made.
C3_SnapshotNamesDistinct ==
    \A p \in Procs : stamp[p] # "" => stamp[p] \notin DOMAIN pre[p]

\* C4: restore_database with a source path at which no file exists returns the
\* not-found error, begins no copy and leaves the file system as it was.
C4_MissingSourceNoMutation ==
    \A p \in Procs :
        (Returned(p, "restore_database") /\ arg[p] \notin DOMAIN pre[p]) =>
            /\ ret[p] = "NotFound"
            /\ did[p] = {}
            /\ files = pre[p]

\* C4 witness: the source is missing while notes.db exists.
C4_Witness ==
    \E p \in Procs :
        /\ Returned(p, "restore_database")
        /\ arg[p] \notin DOMAIN pre[p]
        /\ DbPath \in DOMAIN pre[p]

C9_NotASequence ==
    { <<"w", "w">>, <<>>, <<"s">>, <<"{A}">>, <<"[", "{A}">>,
      <<"[", "{A}", ",", "]">>, <<"[", "]", "w">> }

\* C9: export_all_notes_to_markdown with an input that is not valid JSON or
\* not a sequence at the top level returns the parse error and leaves the file
\* system, the file at file_path included, as it was.
C9_ParseErrorNoWrite ==
    \A p \in Procs :
        (/\ Returned(p, "export_all_notes_to_markdown")
         /\ notes_json[p] \in C9_NotASequence) =>
            /\ ret[p] = "ParseError"
            /\ files = pre[p]

\* C9 witness: the input not json, with a file already at file_path.
C9_Witness ==
    \E p \in Procs :
        /\ Returned(p, "export_all_notes_to_markdown")
        /\ notes_json[p] = <<"w", "w">>
        /\ arg[p] \in DOMAIN pre[p]

(***************************************************************************)
(* Claim about concurrent restores, checked under SpecRace.                *)
(***************************************************************************)
\* both invocations returned Ok: no copy failed
BothRestored == \A p \in Procs : pc[p] = "done" /\ ret[p] = "Ok"

\* the steps of invocation p after its entry
RestoreStep(p) ==
    \/ restore_resolve(p)
    \/ \E ok \in BOOLEAN : restore_safety_open(p, ok)
    \/ \E ok \in BOOLEAN : restore_safety_write(p, ok)
    \/ \E ok \in BOOLEAN : restore_copy_open(p, ok)
    \/ \E ok \in BOOLEAN : restore_copy_write(p, ok)

\* C10 as stated: after two concurrent restores in which no copy failed,
\* notes.db holds the source of the invocation whose copy completed last.
C10_LastCopyWins ==
    BothRestored => files[DbPath] = files[arg[landed]]

\* C10 amended: neither invocation ever waits for the other, and after two
\* concurrent restores in which no copy failed, notes.db holds the source of
\* the invocation whose copy completed last provided the two copies over
\* notes.db did not overlap in time.
C10_LastCopyWinsUnlessOverlapped ==
    /\ \A p \in Procs : pc[p] \notin {"idle", "done"} => ENABLED RestoreStep(p)
    /\ (BothRestored /\ ~overlapped) => files[DbPath] = files[arg[landed]]

\* C10 witness: both invocations were made before either touched the file
\* system, with different sources, and their copies over notes.db did not
\* overlap.
C10_Witness ==
    /\ BothRestored
    /\ ~overlapped
    /\ pre[1] = pre[2]
    /\ files[arg[1]] # files[arg[2]]

====
